---- MODULE Spec2Model ----
(***************************************************************************)
(* Model of the grasp planning service of objects_database_node.cpp:       *)
(* ObjectsDatabaseNode::graspPlanningCB with HandDescription,              *)
(* pruneGraspList and multiplyPoses.                                       *)
(*                                                                         *)
(* Joint angles are integers in units of 1e-4 rad (1.5707 rad = 15707).    *)
(* A pose is a rigid transform; it is modelled as an element of the        *)
(* non-commutative group of permutations of 1..3, pose multiplication as   *)
(* composition.                                                            *)
(***************************************************************************)
EXTENDS Integers, Sequences, FiniteSets, TLC

(* ------------------------------ bounds -------------------------------- *)

\* longest answer of the catalog to one grasp query
MaxRows == 2
\* most potential models in one request
MaxCands == 2

(* ----------------------------- constants ------------------------------ *)

\* the literal 1.5707 of the Schunk clamps
JointLimit == 15707
\* the literal of pruneGraspList's comparison
QualityThreshold == -40
GraspEffort == 50
PreGraspEffort == 100
\* 0.15 and 0.07, in cm
DesiredApproachDistance == 15
MinApproachDistance == 7
\* defaults of the two pruning parameters (0.5 in 1e-4 units, 0.0)
PruneGripperOpeningDefault == 5000
PruneTableClearanceDefault == 0

\* GraspPlanningErrorCode values written by the callback
SUCCESS == "SUCCESS"
OTHER_ERROR == "OTHER_ERROR"
\* value of a freshly constructed response, before the callback writes it
UNSET == "UNSET"

Missing == "<missing>"

(* ------------------------------ poses --------------------------------- *)

Identity == <<1, 2, 3>>
Poses == {p \in [1..3 -> 1..3] : \A i, j \in 1..3 : p[i] = p[j] => i = j}

\* t2 = t1 * t2 : the left operand is the outer transform
multiplyPoses(p1, p2) == [i \in 1..3 |-> p1[p2[i]]]

(* ------------------------- parameter server --------------------------- *)

Arms == {"schunk_arm", "schunk_short", "right_arm", "right_short",
         "other_arm", "no_hand", "no_joints"}

\* /hand_description/<arm>/hand_database_name
HandDatabaseNameParam(arm) ==
  CASE arm \in {"schunk_arm", "schunk_short"} -> "Schunk"
    [] arm \in {"right_arm", "right_short"} -> "WILLOW_GRIPPER_2010"
    [] arm \in {"other_arm", "no_joints"} -> "OTHER_HAND"
    [] OTHER -> Missing

\* /hand_description/<arm>/hand_joints
HandJointsParam(arm) ==
  CASE arm = "schunk_arm" -> <<"j1", "j2", "j3", "j4", "j5", "j6", "j7">>
    [] arm = "right_arm" -> <<"j1", "j2", "j3", "j4">>
    [] arm \in {"schunk_short", "right_short", "other_arm", "no_hand"} -> <<"j1", "j2">>
    [] OTHER -> Missing

\* getStringParam: an absent parameter is logged and the empty string returned
getStringParam(value) == IF value = Missing THEN "" ELSE value

\* getVectorParam: an absent parameter is logged and no value is pushed
getVectorParam(list) == IF list = Missing THEN <<>> ELSE list

handDatabaseName(arm) == getStringParam(HandDatabaseNameParam(arm))
handJointNames(arm) == getVectorParam(HandJointsParam(arm))

(* ------------------------------ catalog ------------------------------- *)

Row(m, h, q, sq, pre, fin, pose) ==
  [scaled_model_id |-> m, hand_name |-> h, quality |-> q, scaled_quality |-> sq,
   pre_grasp_posture |-> pre, final_grasp_posture |-> fin, final_grasp_pose |-> pose]

ModelIds == {18744, 18799}

\* rows the catalog may hold for one (model, hand): every posture shape the
\* callback distinguishes for the hand, and qualities on both sides of the
\* threshold (a pruned row is erased before anything but its quality is read)
CatalogRows(m, h) ==
  CASE h = "Schunk" ->
        { Row(m, h, -41, 3, <<-3000, 2000, 16000, -16000, 100, 777, 20000, -20000>>,
                            <<17000, -100, 300, 15707, -15708, 999, 1200, -20000>>, <<2, 1, 3>>),
          Row(m, h, -55, 4, <<0, 1, 2, 3, 4, 5, 6>>,
                            <<0, 0, 0, 0, 0, 0, 12000, -20000>>, <<2, 3, 1>>),
          Row(m, h, -60, 5, <<1, 2, 3, 4, 5, 6, 7>>, <<1, 2, 3, 4, 5, 6, 7>>, <<2, 1, 3>>),
          Row(m, h, -40, 6, <<0, 0, 0, 0, 0, 0, 0, 0>>, <<0, 0, 0, 0, 0, 0, 0, 0>>, <<2, 1, 3>>),
          Row(m, h, -39, 7, <<0, 0, 0, 0, 0, 0, 0, 0>>, <<0, 0, 0, 0, 0, 0, 0, 0>>, <<2, 1, 3>>) }
    [] h = "WILLOW_GRIPPER_2010" ->
        { Row(m, h, -41, 3, <<800>>, <<200>>, <<2, 1, 3>>),
          Row(m, h, -55, 4, <<>>, <<300>>, <<2, 3, 1>>),
          Row(m, h, -60, 5, <<700, 600>>, <<100>>, <<2, 3, 1>>),
          Row(m, h, -70, 8, <<700, 600>>, <<100, 200>>, <<2, 1, 3>>),
          Row(m, h, -40, 6, <<800>>, <<200>>, <<2, 1, 3>>),
          Row(m, h, 10, 7, <<800>>, <<200>>, <<2, 1, 3>>) }
    [] h = "OTHER_HAND" ->
        { Row(m, h, -41, 3, <<800, 900>>, <<200, 300>>, <<2, 1, 3>>),
          Row(m, h, -55, 4, <<500>>, <<100, 400>>, <<2, 3, 1>>),
          Row(m, h, -60, 5, <<1, 2, 3>>, <<4, 5, 6>>, <<2, 3, 1>>),
          Row(m, h, -70, 8, <<>>, <<>>, <<2, 1, 3>>),
          Row(m, h, -40, 6, <<800, 900>>, <<200, 300>>, <<2, 1, 3>>),
          Row(m, h, -39, 7, <<800, 900>>, <<200, 300>>, <<2, 1, 3>>) }
    [] OTHER -> {}

SeqsUpTo(S, n) == UNION {[1..k -> S] : k \in 0..n}

\* possible answers of getClusterRepGrasps(model_id, hand_id, grasps)
GraspLists(m, h) == SeqsUpTo(CatalogRows(m, h), MaxRows)

(* ------------------------------ request ------------------------------- *)

Frames == {"base_link", "camera"}

PotentialModel(m, pose, frame) == [model_id |-> m, pose |-> pose, frame_id |-> frame]

Candidates == { PotentialModel(18744, <<1, 3, 2>>, "camera"),
                PotentialModel(18744, <<1, 3, 2>>, "base_link"),
                PotentialModel(18799, <<3, 2, 1>>, "base_link") }

\* the potential_models of a request
CandidateLists == SeqsUpTo(Candidates, MaxCands)

\* transforms the tf listener may hold for reference_frame <- detection frame
Transforms == { <<3, 1, 2>>, <<3, 2, 1>> }

\* values an out-of-bounds read of a joint angle vector may produce
Garbage == { -99999, 31337 }

(* ------------------------------- state -------------------------------- *)

VARIABLES
  pc,                  \* position in graspPlanningCB
  database_,           \* "connected" or "NULL"
  assertsEnabled,      \* whether the build keeps ROS_ASSERT
  arm_name,            \* request.arm_name
  potential_models,    \* request.target.potential_models
  reference_frame_id,  \* request.target.reference_frame_id
  model_id,            \* local model_id
  hand_id,             \* local hand_id
  grasps,              \* local vector of DatabaseGrasp
  it,                  \* loop iterator (1-based index into grasps)
  grasp,               \* the Grasp under construction
  error_code,          \* response.error_code.value
  response_grasps,     \* response.grasps
  retrieved,           \* the vector as the catalog returned it
  pruned,              \* the count pruneGraspList logs
  fetches,             \* calls of getClusterRepGrasps
  lookups,             \* calls of lookupTransform
  origin,              \* for each response grasp, the index of its record in grasps
  skipped,             \* records left by `continue`
  exit,                \* the return statement the callback left by
  handDatabaseNameCalls,  \* calls of hd.handDatabaseName
  handJointNamesCalls     \* calls of hd.handJointNames

vars == <<pc, database_, assertsEnabled, arm_name, potential_models, reference_frame_id,
          model_id, hand_id, grasps, it, grasp, error_code, response_grasps,
          retrieved, pruned, fetches, lookups, origin, skipped, exit,
          handDatabaseNameCalls, handJointNamesCalls>>

request == <<arm_name, potential_models, reference_frame_id>>
build == <<database_, assertsEnabled>>

NoGrasp == [set |-> FALSE]

Init ==
  /\ pc = "START"
  /\ database_ \in {"connected", "NULL"}
  /\ assertsEnabled \in BOOLEAN
  /\ arm_name \in Arms
  /\ potential_models \in CandidateLists
  /\ reference_frame_id \in Frames
  /\ model_id = 0
  /\ hand_id = ""
  /\ grasps = <<>>
  /\ it = 1
  /\ grasp = NoGrasp
  /\ error_code = UNSET
  /\ response_grasps = <<>>
  /\ retrieved = <<>>
  /\ pruned = 0
  /\ fetches = 0
  /\ lookups = 0
  /\ origin = <<>>
  /\ skipped = 0
  /\ exit = "none"
  /\ handDatabaseNameCalls = 0
  /\ handJointNamesCalls = 0

(* --------------------------- pruneGraspList --------------------------- *)

erase(v, i) == [k \in 1..(Len(v) - 1) |-> IF k < i THEN v[k] ELSE v[k + 1]]

\* variant: a record exactly at the threshold is kept
Prunable_strict(g) == g.quality > QualityThreshold

\* the test that decides whether *prune_it is erased
Prunable(g) == g.quality >= QualityThreshold

RECURSIVE PruneLoop(_, _, _)
PruneLoop(v, prune_it, n) ==
  IF prune_it > Len(v) THEN [grasps |-> v, pruned |-> n]
  ELSE IF Prunable(v[prune_it]) THEN PruneLoop(erase(v, prune_it), prune_it, n + 1)
  ELSE PruneLoop(v, prune_it + 1, n)

\* the two thresholds are parameters of the function and are not read
pruneGraspList(v, gripper_threshold, table_clearance_threshold) == PruneLoop(v, 1, 0)

(* ------------------------ joint layout of a grasp --------------------- *)

min(a, b) == IF a < b THEN a ELSE b
max(a, b) == IF a > b THEN a ELSE b

\* joint_angles_[i] of the source (0-based); g is what a read past the end yields
Angle(v, i, g) == IF i + 1 <= Len(v) THEN v[i + 1] ELSE g

\* variant: the last four outputs are taken one index too far
SchunkPosition_shifted(v, g) ==
  << min(JointLimit, max(Angle(v, 0, g), 0)),
     min(JointLimit, max(Angle(v, 6, g), -JointLimit)),
     min(JointLimit, max(Angle(v, 7, g), -JointLimit)),
     min(JointLimit, max(Angle(v, 2, g), -JointLimit)),
     min(JointLimit, max(Angle(v, 3, g), -JointLimit)),
     min(JointLimit, max(Angle(v, 4, g), -JointLimit)),
     min(JointLimit, max(Angle(v, 5, g), -JointLimit)) >>

SchunkPosition(v, g) ==
  << min(JointLimit, max(Angle(v, 0, g), 0)),
     min(JointLimit, max(Angle(v, 6, g), -JointLimit)),
     min(JointLimit, max(Angle(v, 7, g), -JointLimit)),
     min(JointLimit, max(Angle(v, 1, g), -JointLimit)),
     min(JointLimit, max(Angle(v, 2, g), -JointLimit)),
     min(JointLimit, max(Angle(v, 3, g), -JointLimit)),
     min(JointLimit, max(Angle(v, 4, g), -JointLimit)) >>

\* vector::resize(n, value) of an empty vector
Filled(n, value) == [k \in 1..n |-> value]

Skip == [kind |-> "skip"]
Throw == [kind |-> "throw"]
Positions(pre, fin, oob) == [kind |-> "ok", pre |-> pre, fin |-> fin, oob |-> oob]

\* the three branches on hand_id: "skip" is a `continue`, "throw" the
\* std::out_of_range of at(0), oob a read past the end of the pre-grasp vector
Adapt(rec, joint_names, hid, g) ==
  LET pre == rec.pre_grasp_posture
      fin == rec.final_grasp_posture
  IN IF hid = "Schunk"
       THEN IF Len(joint_names) # 7 THEN Skip
            ELSE IF Len(fin) # 8 THEN Skip
            ELSE Positions(SchunkPosition(pre, g), SchunkPosition(fin, g), Len(pre) < 8)
     ELSE IF hid # "WILLOW_GRIPPER_2010"
       THEN IF Len(joint_names) # Len(fin) THEN Skip
            ELSE Positions(pre, fin, FALSE)
     ELSE IF Len(joint_names) # 4 \/ Len(fin) # 1 THEN Skip
          ELSE IF Len(pre) = 0 THEN Throw
          ELSE Positions(Filled(Len(joint_names), pre[1]),
                         Filled(Len(joint_names), fin[1]), FALSE)

JointState(names, position, effort) ==
  [name |-> names, position |-> position, effort |-> Filled(Len(names), effort)]

(* --------------------------- graspPlanningCB -------------------------- *)

\* variant: the most recent candidate is taken
Target_last(pm) == pm[Len(pm)]

\* request.target.potential_models[0]
Target(pm) == pm[1]

\* the value each return statement stores in response.error_code
ErrorCodeAt(site) ==
  CASE site = "not_connected" -> OTHER_ERROR
    [] site = "empty_target" -> OTHER_ERROR
    [] site = "query_error" -> OTHER_ERROR
    [] site = "transform_error" -> OTHER_ERROR
    [] site = "returning" -> SUCCESS

Return(site) ==
  /\ error_code' = ErrorCodeAt(site)
  /\ exit' = site
  /\ pc' = "done"

\* the process ends without a response: abort of a failed ROS_ASSERT, an
\* exception leaving the callback, a crash on an invalid read
Abort == pc' = "aborted"

DatabaseNotConnected ==
  /\ pc = "START"
  /\ database_ = "NULL"
  /\ Return("not_connected")
  /\ UNCHANGED <<request, build, model_id, hand_id, grasps, it, grasp, response_grasps,
                 retrieved, pruned, fetches, lookups, origin, skipped,
                 handDatabaseNameCalls, handJointNamesCalls>>

\* variant: the error is stored but the early return is missing
EmptyTarget_fallthrough(pm) ==
  /\ pc = "START"
  /\ database_ # "NULL"
  /\ pm = <<>>
  /\ error_code' = ErrorCodeAt("empty_target")
  /\ model_id' = 0
  /\ hand_id' = handDatabaseName(arm_name)
  /\ pc' = "HandProfileResolved"
  /\ handDatabaseNameCalls' = handDatabaseNameCalls + 1
  /\ UNCHANGED <<request, build, grasps, it, grasp, response_grasps,
                 retrieved, pruned, fetches, lookups, origin, skipped, exit,
                 handJointNamesCalls>>

EmptyTarget(pm) ==
  /\ pc = "START"
  /\ database_ # "NULL"
  /\ pm = <<>>
  /\ Return("empty_target")
  /\ UNCHANGED <<request, build, model_id, hand_id, grasps, it, grasp, response_grasps,
                 retrieved, pruned, fetches, lookups, origin, skipped,
                 handDatabaseNameCalls, handJointNamesCalls>>

\* variant: the fetch is issued with a hand id that was never looked up
ResolveHand_noLookup(pm) ==
  /\ pc = "START"
  /\ database_ # "NULL"
  /\ pm # <<>>
  /\ model_id' = Target(pm).model_id
  /\ pc' = "HandProfileResolved"
  /\ UNCHANGED <<request, build, hand_id, grasps, it, grasp, error_code, response_grasps,
                 retrieved, pruned, fetches, lookups, origin, skipped, exit,
                 handDatabaseNameCalls, handJointNamesCalls>>

ResolveHand(pm) ==
  /\ pc = "START"
  /\ database_ # "NULL"
  /\ pm # <<>>
  /\ model_id' = Target(pm).model_id
  /\ hand_id' = handDatabaseName(arm_name)
  /\ pc' = "HandProfileResolved"
  /\ handDatabaseNameCalls' = handDatabaseNameCalls + 1
  /\ UNCHANGED <<request, build, grasps, it, grasp, error_code, response_grasps,
                 retrieved, pruned, fetches, lookups, origin, skipped, exit,
                 handJointNamesCalls>>

QueryError ==
  /\ pc = "HandProfileResolved"
  /\ fetches' = fetches + 1
  /\ Return("query_error")
  /\ UNCHANGED <<request, build, model_id, hand_id, grasps, it, grasp, response_grasps,
                 retrieved, pruned, lookups, origin, skipped,
                 handDatabaseNameCalls, handJointNamesCalls>>

FetchGrasps ==
  /\ pc = "HandProfileResolved"
  /\ fetches' = fetches + 1
  /\ grasps' \in GraspLists(model_id, hand_id)
  /\ retrieved' = grasps'
  /\ pc' = "RawGraspsFetched"
  /\ UNCHANGED <<request, build, model_id, hand_id, it, grasp, error_code, response_grasps,
                 pruned, lookups, origin, skipped, exit,
                 handDatabaseNameCalls, handJointNamesCalls>>

Prune ==
  /\ pc = "RawGraspsFetched"
  /\ LET r == pruneGraspList(grasps, PruneGripperOpeningDefault, PruneTableClearanceDefault)
     IN /\ grasps' = r.grasps
        /\ pruned' = r.pruned
  /\ it' = 1
  /\ pc' = "Filtered"
  /\ UNCHANGED <<request, build, model_id, hand_id, grasp, error_code, response_grasps,
                 retrieved, fetches, lookups, origin, skipped, exit,
                 handDatabaseNameCalls, handJointNamesCalls>>

InLoop == pc = "Filtered" /\ it <= Len(grasps)

\* ROS_ASSERT(final.size() == pre.size())
AssertHolds(rec) == Len(rec.final_grasp_posture) = Len(rec.pre_grasp_posture)

AssertPassed == ~assertsEnabled \/ AssertHolds(grasps[it])

AssertFailed ==
  /\ InLoop
  /\ ~AssertPassed
  /\ Abort
  /\ UNCHANGED <<request, build, model_id, hand_id, grasps, it, grasp, error_code,
                 response_grasps, retrieved, pruned, fetches, lookups, origin, skipped, exit,
                 handDatabaseNameCalls, handJointNamesCalls>>

SkipRecord ==
  /\ InLoop
  /\ AssertPassed
  /\ \E g \in Garbage : Adapt(grasps[it], handJointNames(arm_name), hand_id, g).kind = "skip"
  /\ it' = it + 1
  /\ skipped' = skipped + 1
  /\ handJointNamesCalls' = handJointNamesCalls + 1
  /\ UNCHANGED <<pc, request, build, model_id, hand_id, grasps, grasp, error_code,
                 response_grasps, retrieved, pruned, fetches, lookups, origin, exit,
                 handDatabaseNameCalls>>

AdaptThrows ==
  /\ InLoop
  /\ AssertPassed
  /\ \E g \in Garbage : Adapt(grasps[it], handJointNames(arm_name), hand_id, g).kind = "throw"
  /\ Abort
  /\ handJointNamesCalls' = handJointNamesCalls + 1
  /\ UNCHANGED <<request, build, model_id, hand_id, grasps, it, grasp, error_code,
                 response_grasps, retrieved, pruned, fetches, lookups, origin, skipped, exit,
                 handDatabaseNameCalls>>

AdaptCrashes ==
  /\ InLoop
  /\ AssertPassed
  /\ \E g \in Garbage :
       LET a == Adapt(grasps[it], handJointNames(arm_name), hand_id, g)
       IN a.kind = "ok" /\ a.oob
  /\ Abort
  /\ handJointNamesCalls' = handJointNamesCalls + 1
  /\ UNCHANGED <<request, build, model_id, hand_id, grasps, it, grasp, error_code,
                 response_grasps, retrieved, pruned, fetches, lookups, origin, skipped, exit,
                 handDatabaseNameCalls>>

AdaptRecord(pm) ==
  /\ InLoop
  /\ AssertPassed
  /\ \E g \in Garbage :
       LET joint_names == handJointNames(arm_name)
           a == Adapt(grasps[it], joint_names, hand_id, g)
       IN /\ a.kind = "ok"
          /\ grasp' = [set |-> TRUE,
                       pre_grasp_posture |-> JointState(joint_names, a.pre, PreGraspEffort),
                       grasp_posture |-> JointState(joint_names, a.fin, GraspEffort),
                       desired_approach_distance |-> DesiredApproachDistance,
                       min_approach_distance |-> MinApproachDistance,
                       grasp_pose |-> multiplyPoses(Target(pm).pose,
                                                    grasps[it].final_grasp_pose)]
  /\ pc' = "Adapted"
  /\ handJointNamesCalls' = handJointNamesCalls + 1
  /\ UNCHANGED <<request, build, model_id, hand_id, grasps, it, error_code,
                 response_grasps, retrieved, pruned, fetches, lookups, origin, skipped, exit,
                 handDatabaseNameCalls>>

\* success_probability and push_back
Accumulate(pose) ==
  /\ response_grasps' =
       Append(response_grasps,
              [pre_grasp_posture |-> grasp.pre_grasp_posture,
               grasp_posture |-> grasp.grasp_posture,
               desired_approach_distance |-> grasp.desired_approach_distance,
               min_approach_distance |-> grasp.min_approach_distance,
               grasp_pose |-> pose,
               success_probability |-> grasps[it].scaled_quality])
  /\ origin' = Append(origin, it)
  /\ grasp' = NoGrasp
  /\ it' = it + 1
  /\ pc' = "Filtered"

\* variant: the transform is looked up whatever the frames
NeedsTransform_always(pm) == Target(pm).frame_id = Target(pm).frame_id

\* potential_models[0].pose.header.frame_id != reference_frame_id
NeedsTransform(pm) == Target(pm).frame_id # reference_frame_id

SameFrame(pm) ==
  /\ pc = "Adapted"
  /\ ~NeedsTransform(pm)
  /\ Accumulate(grasp.grasp_pose)
  /\ UNCHANGED <<request, build, model_id, hand_id, grasps, error_code,
                 retrieved, pruned, fetches, lookups, skipped, exit,
                 handDatabaseNameCalls, handJointNamesCalls>>

LookupTransform(pm) ==
  /\ pc = "Adapted"
  /\ NeedsTransform(pm)
  /\ lookups' = lookups + 1
  /\ \E ref_pose \in Transforms : Accumulate(multiplyPoses(ref_pose, grasp.grasp_pose))
  /\ UNCHANGED <<request, build, model_id, hand_id, grasps, error_code,
                 retrieved, pruned, fetches, skipped, exit,
                 handDatabaseNameCalls, handJointNamesCalls>>

LookupThrows(pm) ==
  /\ pc = "Adapted"
  /\ NeedsTransform(pm)
  /\ lookups' = lookups + 1
  /\ Return("transform_error")
  /\ UNCHANGED <<request, build, model_id, hand_id, grasps, it, grasp, response_grasps,
                 retrieved, pruned, fetches, origin, skipped,
                 handDatabaseNameCalls, handJointNamesCalls>>

\* variant: a response without grasps is reported as an error
LoopEnd_emptyIsError ==
  /\ pc = "Filtered"
  /\ it > Len(grasps)
  /\ error_code' = IF response_grasps = <<>> THEN OTHER_ERROR ELSE SUCCESS
  /\ exit' = "returning"
  /\ pc' = "done"
  /\ UNCHANGED <<request, build, model_id, hand_id, grasps, it, grasp, response_grasps,
                 retrieved, pruned, fetches, lookups, origin, skipped,
                 handDatabaseNameCalls, handJointNamesCalls>>

LoopEnd ==
  /\ pc = "Filtered"
  /\ it > Len(grasps)
  /\ Return("returning")
  /\ UNCHANGED <<request, build, model_id, hand_id, grasps, it, grasp, response_grasps,
                 retrieved, pruned, fetches, lookups, origin, skipped,
                 handDatabaseNameCalls, handJointNamesCalls>>

\* the steps of the callback that read request.target.potential_models,
\* for a request whose potential models are pm
RequestStep(pm) ==
  \/ EmptyTarget(pm)
  \/ ResolveHand(pm)
  \/ AdaptRecord(pm)
  \/ SameFrame(pm)
  \/ LookupTransform(pm)
  \/ LookupThrows(pm)

Next ==
  \/ DatabaseNotConnected
  \/ EmptyTarget(potential_models)
  \/ ResolveHand(potential_models)
  \/ QueryError
  \/ FetchGrasps
  \/ Prune
  \/ AssertFailed
  \/ SkipRecord
  \/ AdaptThrows
  \/ AdaptCrashes
  \/ AdaptRecord(potential_models)
  \/ SameFrame(potential_models)
  \/ LookupTransform(potential_models)
  \/ LookupThrows(potential_models)
  \/ LoopEnd

Spec == Init /\ [][Next]_vars

(* ------------------------------ properties ---------------------------- *)

Responded == pc = "done"
Failed == error_code = OTHER_ERROR

\* C1: whenever a transform lookup fails, the response carries a failure
\* status and its grasp list is empty, also after earlier records of the
\* request were accumulated.
C1_TransformFailureLeavesNoGrasps ==
  exit = "transform_error" => Responded /\ Failed /\ response_grasps = <<>>

\* C2: a request with an empty candidate list ends at once in a failure (the
\* one of the empty target when the database is connected), with no grasps,
\* without a hand lookup, a catalog fetch or a transform lookup, whatever the
\* arm, frame and configuration.
C2_EmptyTargetIsInvalidRequest ==
  potential_models = <<>> =>
     /\ pc \in {"START", "done"}
     /\ fetches = 0
     /\ lookups = 0
     /\ hand_id = ""
     /\ response_grasps = <<>>
     /\ Responded => Failed
     /\ (Responded /\ database_ # "NULL") => exit = "empty_target"

C2_Witness ==
  /\ potential_models = <<>>
  /\ database_ # "NULL"
  /\ Responded
  /\ exit = "empty_target"
  /\ HandDatabaseNameParam(arm_name) = Missing

ConfigurationMissing ==
  \/ HandDatabaseNameParam(arm_name) = Missing
  \/ HandJointsParam(arm_name) = Missing

\* C3: if either configuration lookup of the request's arm is absent, no
\* catalog fetch proceeds, the absent value is not replaced by a default and
\* the response is a failure, never Success.
C3_MissingConfigurationIsFatal ==
  ConfigurationMissing =>
     /\ fetches = 0
     /\ error_code # SUCCESS
     /\ (pc = "HandProfileResolved" /\ HandDatabaseNameParam(arm_name) = Missing) => hand_id # ""

\* C4: when the catalog's grasp fetch fails, the request ends with a failure
\* and no grasps, and the status differs from the one of an empty target and
\* from the one of an unavailable transform.
C4_QueryErrorIsDistinctKind ==
  exit = "query_error" =>
     /\ Responded /\ Failed /\ response_grasps = <<>>
     /\ error_code # ErrorCodeAt("empty_target")
     /\ error_code # ErrorCodeAt("transform_error")

Filtered == pc \in {"Filtered", "Adapted", "aborted"} \/ (Responded /\ fetches = 1)

PruneThresholds == {-1, 0, 5000, 20000}

C6_PostureLengthsMatchJointNames ==
  \A k \in 1..Len(response_grasps) :
     /\ Len(response_grasps[k].pre_grasp_posture.position) = Len(handJointNames(arm_name))
     /\ Len(response_grasps[k].grasp_posture.position) = Len(handJointNames(arm_name))
     /\ response_grasps[k].pre_grasp_posture.name = handJointNames(arm_name)
     /\ response_grasps[k].grasp_posture.name = handJointNames(arm_name)

\* the length precondition of each strategy, on the joint names and on both
\* raw posture vectors
ShapeFits(rec, joint_names, hid) ==
  LET np == Len(rec.pre_grasp_posture)
      nf == Len(rec.final_grasp_posture)
  IN IF hid = "Schunk" THEN Len(joint_names) = 7 /\ np = 8 /\ nf = 8
     ELSE IF hid = "WILLOW_GRIPPER_2010" THEN Len(joint_names) = 4 /\ np = 1 /\ nf = 1
     ELSE np = Len(joint_names) /\ nf = Len(joint_names)

RECURSIVE FittingIndices(_, _)
FittingIndices(v, k) ==
  IF k > Len(v) THEN <<>>
  ELSE (IF ShapeFits(v[k], handJointNames(arm_name), hand_id) THEN <<k>> ELSE <<>>)
       \o FittingIndices(v, k + 1)

\* C7: a filtered record that violates its strategy's length precondition
\* contributes nothing and the records after it are still processed:
\* without a failed transform lookup the response is Success with one grasp
\* for each record that satisfies the precondition, in catalog order.
C7_ShapeMismatchSkipsRecord ==
  /\ \A k \in 1..Len(origin) : ShapeFits(grasps[origin[k]], handJointNames(arm_name), hand_id)
  /\ (Responded /\ fetches = 1 /\ exit \notin {"query_error", "transform_error"}) =>
        /\ error_code = SUCCESS
        /\ origin = FittingIndices(grasps, 1)

\* requests that agree with pm on the first candidate
Alternatives(pm) ==
  {alt \in CandidateLists : alt # <<>> /\ alt[1] = pm[1]}

\* C8: requests that agree on arm, reference frame and first candidate and
\* differ in the later candidates take the same steps to the same response:
\* every step of the callback that reads the candidates is the same step
\* for the other request (the remaining steps do not mention them), and the
\* catalog is queried for the first candidate's model.
C8_OnlyFirstCandidateUsed ==
  /\ [][(potential_models # <<>> /\ RequestStep(potential_models)) =>
          \A alt \in Alternatives(potential_models) : RequestStep(alt)]_vars
  /\ [](\A k \in 1..Len(retrieved) :
          retrieved[k].scaled_model_id = potential_models[1].model_id)

C8_Witness ==
  /\ Len(potential_models) = 2
  /\ potential_models[2].model_id # potential_models[1].model_id
  /\ potential_models[2].frame_id # potential_models[1].frame_id
  /\ Responded
  /\ error_code = SUCCESS
  /\ Len(response_grasps) = 2
  /\ \A k \in 1..2 : grasps[origin[k]].scaled_model_id = potential_models[1].model_id

\* C9: when the first candidate's frame is the reference frame, no transform
\* is looked up, the request never fails for a transform, and every grasp
\* pose is the detection pose composed with the record's pose.
C9_SameFrameNeverLooksUp ==
  (potential_models # <<>> /\ potential_models[1].frame_id = reference_frame_id) =>
     /\ lookups = 0
     /\ exit # "transform_error"
     /\ \A k \in 1..Len(response_grasps) :
          response_grasps[k].grasp_pose =
             [i \in 1..3 |-> potential_models[1].pose[grasps[origin[k]].final_grasp_pose[i]]]

C9_Witness ==
  /\ Len(potential_models) >= 1
  /\ potential_models[1].frame_id = reference_frame_id
  /\ Responded
  /\ Len(response_grasps) = 2
  /\ response_grasps[1].grasp_pose # response_grasps[2].grasp_pose

\* C10: when the fetch succeeded and every record was pruned or skipped, no
\* transform is looked up, and the request completes with Success and an
\* empty grasp list.
C10_NoSurvivorIsSuccess ==
  (fetches = 1 /\ exit # "query_error" /\ pc # "HandProfileResolved"
     /\ pruned + skipped = Len(retrieved)) =>
     /\ lookups = 0
     /\ response_grasps = <<>>
     /\ pc # "aborted"
     /\ Responded => error_code = SUCCESS

C10_Witness ==
  /\ Responded
  /\ pruned = 1
  /\ skipped = 1
  /\ Len(retrieved) = 2
  /\ NeedsTransform(potential_models)
  /\ error_code = SUCCESS
  /\ response_grasps = <<>>

Clamp(x, lo, hi) == IF x < lo THEN lo ELSE IF x > hi THEN hi ELSE x

\* the seven positions the claim states for a raw vector of eight values
\* (raw[i] of the claim is raw[i + 1] here; raw[5] does not occur)
UnderactuatedLayout(raw) ==
  << Clamp(raw[1], 0, 15707),
     Clamp(raw[7], -15707, 15707),
     Clamp(raw[8], -15707, 15707),
     Clamp(raw[2], -15707, 15707),
     Clamp(raw[3], -15707, 15707),
     Clamp(raw[4], -15707, 15707),
     Clamp(raw[5], -15707, 15707) >>

\* C11: for hand "Schunk" with 7 joint names, each posture of a response
\* grasp whose raw vector has 8 values has 7 positions: raw[0] clamped into
\* [0, 1.5707], then raw[6], raw[7], raw[1], raw[2], raw[3], raw[4] clamped
\* into [-1.5707, 1.5707]; the pre-grasp posture is computed from the
\* pre-grasp vector and the grasp posture from the final vector.
C11_UnderactuatedLayout ==
  hand_id = "Schunk" =>
    \A k \in 1..Len(response_grasps) :
       LET rec == grasps[origin[k]]
       IN /\ Len(handJointNames(arm_name)) = 7
          /\ Len(rec.final_grasp_posture) = 8
          /\ response_grasps[k].grasp_posture.position =
               UnderactuatedLayout(rec.final_grasp_posture)
          /\ Len(rec.pre_grasp_posture) = 8 =>
               response_grasps[k].pre_grasp_posture.position =
                  UnderactuatedLayout(rec.pre_grasp_posture)

C11_Witness ==
  /\ Responded
  /\ hand_id = "Schunk"
  /\ Len(response_grasps) = 2
  /\ response_grasps[1].pre_grasp_posture.position =
        <<0, 15707, -15707, 2000, 15707, -15707, 100>>
  /\ response_grasps[1].grasp_posture.position =
        <<15707, 1200, -15707, -100, 300, 15707, -15707>>
  /\ response_grasps[2].grasp_posture.position = <<0, 12000, -15707, 0, 0, 0, 0>>

\* the order of the stages of one request, as steps between positions
StageOrder ==
  /\ pc = "START" => pc' \in {"HandProfileResolved", "done"}
  /\ pc = "HandProfileResolved" => pc' \in {"RawGraspsFetched", "done"}
  /\ pc = "RawGraspsFetched" => pc' = "Filtered"
  /\ pc = "Filtered" => pc' \in {"Filtered", "Adapted", "done", "aborted"}
  /\ pc = "Adapted" => pc' \in {"Filtered", "done"}
  /\ pc \in {"done", "aborted"} => pc' = pc

FetchIssued == fetches' # fetches

\* the filter is the one step that leaves RawGraspsFetched; no record is
\* adapted, composed or accumulated before it, and it never runs again
FilterOnceBeforeAdapting ==
  /\ (grasps' # grasps \/ pruned' # pruned) => pc \in {"HandProfileResolved", "RawGraspsFetched"}
  /\ pc \in {"START", "HandProfileResolved", "RawGraspsFetched"} =>
        /\ grasp' = NoGrasp
        /\ response_grasps' = <<>>
        /\ lookups' = 0

\* a transform is looked up only for the record that was just adapted, and
\* a grasp is accumulated only after its pose was composed
ComposeAfterAdapting ==
  /\ lookups' # lookups => (pc = "Adapted" /\ grasp.set /\ lookups' = lookups + 1)
  /\ response_grasps' # response_grasps =>
        (pc = "Adapted" /\ pc' = "Filtered" /\ it' = it + 1 /\ origin' = Append(origin, it))
  /\ exit' = "returning" => (pc = "done" \/ (pc = "Filtered" /\ it > Len(grasps)))

====
